---- MODULE Spec2Model ----
(***************************************************************************)
(* Model of src/app.py: the failed-attempt counter kept in attempts.json,  *)
(* the one-shot message outbox kept in messages.json, the external lookup  *)
(* of the user id and the two routes (/login, /get-message) that drive     *)
(* them.  Every request is handled by a worker; a worker's position (pc)   *)
(* advances at each file or network operation, so that requests handled    *)
(* concurrently interleave exactly at those points.                        *)
(***************************************************************************)
EXTENDS Integers, Sequences, FiniteSets, TLC

\* ------------------------------------------------------------- bounds
NumWorkers == 2
MaxRequests == 4
MaxSeqRequests == 5
MaxRaceRequests == 5
MaxPipelineRequests == 7
MaxLiveRequests == 4

Workers == 1..NumWorkers

\* ------------------------------------------------- program constants
\* login: "if wrong_attempts == 3"
Threshold == 3

\* login: the text handed to send_in_app_message
WarningText == "WARNING: 3 wrong login attempts detected for your account!"

\* ------------------------------------------------------ JSON values
JNull == [t |-> "null", s |-> "", n |-> 0]
JStr(x) == [t |-> "str", s |-> x, n |-> 0]
JInt(x) == [t |-> "int", s |-> "", n |-> x]
\* a JSON object: the value under its "id" key (JNull when it has none)
JObj(v) == [t |-> "obj", id |-> v, size |-> 1]
JEmptyObj == [t |-> "obj", id |-> JNull, size |-> 0]

\* Python truthiness of a parsed JSON value (None, "", 0 and {} are falsy;
\* an object holding an "id" key is a non-empty dict).
Truthy(v) ==
    CASE v.t = "null" -> FALSE
      [] v.t = "str" -> v.s # ""
      [] v.t = "int" -> v.n # 0
      [] v.t = "obj" -> v.size # 0

Digits == <<"0", "1", "2", "3", "4", "5", "6", "7", "8", "9">>

\* str(user_id) for the scalar ids of the model
PyStr(v) ==
    CASE v.t = "str" -> v.s
      [] v.t = "int" -> Digits[v.n + 1]
      [] OTHER -> "None"

\* ------------------------------------------------------------ emails
Space == " "

Lower(c) ==
    CASE c = "A" -> "a"
      [] c = "B" -> "b"
      [] c = "C" -> "c"
      [] OTHER -> c

RECURSIVE LStrip(_)
LStrip(e) == IF e # <<>> /\ Head(e) = Space THEN LStrip(Tail(e)) ELSE e

RECURSIVE RStrip(_)
RStrip(e) ==
    IF e # <<>> /\ e[Len(e)] = Space THEN RStrip(SubSeq(e, 1, Len(e) - 1)) ELSE e

\* (e or "").strip().lower(); a missing email is the empty sequence
norm_email(e) == [i \in 1..Len(RStrip(LStrip(e))) |-> Lower(RStrip(LStrip(e))[i])]

\* ------------------------------------------- Postgres users (read-only)
\* The rows of the users table: the stored email (any case) and the stored
\* password_hash: a bcrypt hash of some password, an empty value, or a
\* string that is no bcrypt hash.
Users ==
    { [id |-> 1, email |-> <<"A">>, password_hash |-> [kind |-> "bcrypt", of |-> "good"]],
      [id |-> 2, email |-> <<"b">>, password_hash |-> [kind |-> "bcrypt", of |-> "good"]],
      [id |-> 3, email |-> <<"c">>, password_hash |-> [kind |-> "empty", of |-> ""]],
      [id |-> 4, email |-> <<"d">>, password_hash |-> [kind |-> "garbage", of |-> ""]] }

NoUser == [id |-> 0, email |-> <<>>, password_hash |-> [kind |-> "empty", of |-> ""]]

LowerAll(e) == [i \in 1..Len(e) |-> Lower(e[i])]

\* SELECT ... WHERE lower(email)=lower(%s) LIMIT 1, on the normalised email
get_user_from_db(email) ==
    LET rows == {u \in Users : LowerAll(u.email) = LowerAll(norm_email(email))}
    IN  IF rows = {} THEN NoUser ELSE CHOOSE u \in rows : TRUE

\* The requests a client may send: the raw email (<<>> when missing) and the
\* password ("" when missing).
Emails == {<<>>, <<"a">>, <<Space, "A">>, <<"b">>, <<"B", Space>>, <<"c">>, <<"d">>, <<"e">>}
Passwords == {"", "good", "bad"}

\* What login does before it touches the counter (lines 151-178): the HTTP
\* status of an early return, or the status its answer will have: 200 when
\* bcrypt.checkpw accepts the password, 403 when it does not.
Verify(email, password) ==
    LET user == get_user_from_db(email)
    IN  IF email = <<>> \/ password = "" THEN 400
        ELSE IF user = NoUser THEN 404
        ELSE IF user.password_hash.kind = "empty" THEN 500
        ELSE IF user.password_hash.kind = "garbage" THEN 500
        ELSE IF user.password_hash.of = password THEN 200
        ELSE 403

\* ----------------------------------------------------- JSON files (demo)
\* A file is absent, holds a JSON object, or has been opened for writing and
\* not yet written ("trunc": open(filepath, "w") empties it).
EmptyDict == [k \in {} |-> 0]
AbsentFile == [st |-> "absent", data |-> EmptyDict]

\* load_json: {} when the file is missing or json.load raises
load_json(file) == IF file.st = "ok" THEN file.data ELSE EmptyDict

\* load_json, lines 56-60: json.load raises on a file that holds no JSON
Unreadable(file) == file.st = "trunc"

\* save_json, first half: open(filepath, "w")
open_w(file) == [st |-> "trunc", data |-> EmptyDict]

\* save_json, second half: json.dump(data, f) and close
json_dump(data) == [st |-> "ok", data |-> data]

\* data.get(k, d)
DictGet(d, k, default) == IF k \in DOMAIN d THEN d[k] ELSE default

\* Mutant of DictPut: the dict is replaced by the one entry
DictPut_only(d, k, v) == [x \in {k} |-> v]

\* data[k] = v
DictPut(d, k, v) == [x \in (DOMAIN d) \cup {k} |-> IF x = k THEN v ELSE d[x]]

\* Mutant of DictDel: the key is not removed
DictDel_keep(d, k) == d

\* data.pop(k, None): the dict without k
DictDel(d, k) == [x \in (DOMAIN d) \ {k} |-> d[x]]

\* ------------------------------------------------- external user lookup
\* A reply of the lookup endpoint: a transport error (requests.get raises), or
\* a status code and a body.  A body is no JSON at all ("invalid"), JSON that is
\* no object ("list"), or an object with the five probed fields.
Body(id, userId, user, data, result) ==
    [shape |-> "dict", id |-> id, userId |-> userId, user |-> user,
     data |-> data, result |-> result]
NoBody == [shape |-> "invalid", id |-> JNull, userId |-> JNull, user |-> JNull,
           data |-> JNull, result |-> JNull]
ListBody == [shape |-> "list", id |-> JNull, userId |-> JNull, user |-> JNull,
             data |-> JNull, result |-> JNull]
Http(status, body) == [kind |-> "http", status |-> status, body |-> body]
TransportError == [kind |-> "transport", status |-> 0, body |-> NoBody]
NoReply == [kind |-> "none", status |-> 0, body |-> NoBody]

\* The error texts fetch_user_id_by_email returns (None is NoErr).
NoErr == [msg |-> "", code |-> 0]
LookupFailed(status) == [msg |-> "lookup failed: ", code |-> status]
IdNotFound == [msg |-> "id not found in response", code |-> 0]
ExcTransport == [msg |-> "HTTPSConnectionPool: Max retries exceeded", code |-> 0]
ExcJson == [msg |-> "Expecting value: line 1 column 1 (char 0)", code |-> 0]
ExcAttribute == [msg |-> "object has no attribute 'get'", code |-> 0]

\* (data.get(name) or {}).get("id"): raises when the value is truthy and no dict
Probe(c) ==
    IF ~Truthy(c) THEN [raised |-> FALSE, v |-> JNull]
    ELSE IF c.t = "obj" THEN [raised |-> FALSE, v |-> c.id]
    ELSE [raised |-> TRUE, v |-> JNull]

\* The or-chain of lines 107-113 on a parsed object: the first truthy value, an
\* AttributeError on the way, or the last (falsy) value.
ProbeChain(body) ==
    IF Truthy(body.id) THEN [raised |-> FALSE, v |-> body.id]
    ELSE IF Truthy(body.userId) THEN [raised |-> FALSE, v |-> body.userId]
    ELSE IF Probe(body.user).raised \/ Truthy(Probe(body.user).v) THEN Probe(body.user)
    ELSE IF Probe(body.data).raised \/ Truthy(Probe(body.data).v) THEN Probe(body.data)
    ELSE Probe(body.result)

\* fetch_user_id_by_email on one reply: (user_id, error)
Fetched(reply) ==
    IF reply.kind = "transport" THEN [user_id |-> JNull, err |-> ExcTransport]
    ELSE IF reply.status # 200 THEN [user_id |-> JNull, err |-> LookupFailed(reply.status)]
    ELSE IF reply.body.shape = "invalid" THEN [user_id |-> JNull, err |-> ExcJson]
    ELSE IF reply.body.shape = "list" THEN [user_id |-> JNull, err |-> ExcAttribute]
    ELSE IF ProbeChain(reply.body).raised THEN [user_id |-> JNull, err |-> ExcAttribute]
    ELSE IF ~Truthy(ProbeChain(reply.body).v) THEN [user_id |-> JNull, err |-> IdNotFound]
    ELSE [user_id |-> ProbeChain(reply.body).v, err |-> NoErr]

\* Mutant of fetch_user_id_by_email: a failed first request is retried once
fetch_user_id_by_email_retry(script) ==
    IF script[1].kind = "transport" \/ script[1].status # 200
    THEN [user_id |-> Fetched(script[2]).user_id, err |-> Fetched(script[2]).err,
          requests |-> 2]
    ELSE [user_id |-> Fetched(script[1]).user_id, err |-> Fetched(script[1]).err,
          requests |-> 1]

\* Mutant of fetch_user_id_by_email: a second request is made whatever the
\* first one returned, and its reply is the one used
fetch_user_id_by_email_again(script) ==
    [user_id |-> Fetched(script[2]).user_id, err |-> Fetched(script[2]).err,
     requests |-> 2]

\* fetch_user_id_by_email against an endpoint that would answer successive
\* requests with the replies of `script`: one requests.get, whatever it returns.
fetch_user_id_by_email(script) ==
    [user_id |-> Fetched(script[1]).user_id, err |-> Fetched(script[1]).err,
     requests |-> 1]

\* The replies the endpoint gives in the model.
Replies ==
    { TransportError,
      Http(500, NoBody),
      Http(200, NoBody),
      Http(200, ListBody),
      Http(200, Body(JStr("u1"), JNull, JNull, JNull, JNull)),
      Http(200, Body(JNull, JInt(7), JNull, JNull, JNull)),
      Http(200, Body(JStr(""), JNull, JObj(JStr("u1")), JNull, JNull)),
      Http(200, Body(JNull, JNull, JNull, JNull, JNull)),
      Http(200, Body(JInt(0), JStr(""), JEmptyObj, JObj(JNull), JObj(JStr("")))),
      Http(200, Body(JNull, JNull, JStr("x"), JNull, JNull)) }

\* What the endpoint would answer to a first and to a second request.
Scripts == {<<r1, r2>> : r1 \in Replies, r2 \in Replies}

\* The userId query parameters of /get-message ("" when missing)
UserIds == {"", "u1", "7"}

\* ------------------------------------------------------------- state
VARIABLES
    attempts_file,  \* attempts.json
    message_file,   \* messages.json
    pc,             \* each worker's position in the request it handles
    loc,            \* each worker's local variables
    ret,            \* the response most recently returned
    nreq,           \* requests received so far
    calls,          \* per account: logins that reached the counter
    streak,         \* per account: wrong-password logins returned since the
                    \* last successful one
    seen,           \* per account: the "attempts" values those returned
    prior,          \* per account: streak at the last successful login (-1: none)
    puts,           \* per user id: messages written by store_message_temp
    taken,          \* per user id: messages returned by /get-message
    trail,          \* per user id: the last two outbox events
    triggers        \* per account: responses of the third-attempt branch

vars == <<attempts_file, message_file, pc, loc, ret, nreq, calls, streak, seen,
          prior, puts, taken, trail, triggers>>

ghost == <<calls, streak, seen, prior, puts, taken, trail, triggers>>

\* The accounts whose logins reach the counter, by normalised email
Keys == {norm_email(e) : e \in {x \in Emails : \E pw \in Passwords : Verify(x, pw) = 403}}

Ids == UserIds \ {""}

NoLocals ==
    [email |-> <<>>, branch |-> "none", data |-> EmptyDict, messages |-> EmptyDict,
     wrong_attempts |-> 0, ext_user_id |-> JNull, lookup_err |-> NoErr, user_id |-> "", message |-> "",
     requests |-> 0, query |-> <<>>, reply |-> NoReply, retry |-> JNull,
     stored |-> 0, read_error |-> FALSE]

\* A response, with what the request did on the way: the lookup requests it
\* issued and the email they carried, the first reply it got, the id a second
\* request would have yielded, the outbox writes it made, and whether a read of
\* attempts.json raised.
NoResponse ==
    [op |-> "none", status |-> 0, key |-> <<>>, user_id |-> "", attempts |-> 0,
     triggered |-> FALSE, external_user_id |-> JNull, external_lookup_error |-> NoErr,
     notify_sent |-> FALSE, message |-> "", requests |-> 0, query |-> <<>>,
     reply |-> NoReply, retry |-> JNull, stored |-> 0, read_error |-> FALSE]

Init ==
    /\ attempts_file = AbsentFile
    /\ message_file = AbsentFile
    /\ pc = [p \in Workers |-> "idle"]
    /\ loc = [p \in Workers |-> NoLocals]
    /\ ret = NoResponse
    /\ nreq = 0
    /\ calls = [k \in Keys |-> 0]
    /\ streak = [k \in Keys |-> 0]
    /\ seen = [k \in Keys |-> {}]
    /\ prior = [k \in Keys |-> -1]
    /\ puts = [u \in Ids |-> 0]
    /\ taken = [u \in Ids |-> 0]
    /\ trail = [u \in Ids |-> <<>>]
    /\ triggers = [k \in Keys |-> 0]

Quiescent == \A p \in Workers : pc[p] = "idle"

\* the last two events of a trail
Push(t, ev) == IF Len(t) < 2 THEN Append(t, ev) ELSE <<t[2], ev>>

\* ----------------------------------------------------------- returns
\* The worker hands its response to the client and is free again; `put` is the
\* key the request has just written to the outbox ("" when none).
Return(p, r, put) ==
    /\ ret' = r
    /\ pc' = [pc EXCEPT ![p] = "idle"]
    /\ loc' = [loc EXCEPT ![p] = NoLocals]
    /\ streak' = IF r.op = "login" /\ r.status = 200 THEN [streak EXCEPT ![r.key] = 0]
                 ELSE IF r.op = "login" /\ r.status = 403
                      THEN [streak EXCEPT ![r.key] = @ + 1]
                 ELSE streak
    /\ seen' = IF r.op = "login" /\ r.status = 200 THEN [seen EXCEPT ![r.key] = {}]
               ELSE IF r.op = "login" /\ r.status = 403
                    THEN [seen EXCEPT ![r.key] = @ \cup {r.attempts}]
               ELSE seen
    /\ prior' = IF r.op = "login" /\ r.status = 200
                THEN [prior EXCEPT ![r.key] = streak[r.key]]
                ELSE prior
    /\ taken' = IF r.op = "get_message" /\ r.status = 200
                THEN [taken EXCEPT ![r.user_id] = @ + 1]
                ELSE taken
    /\ puts' = IF put # "" THEN [puts EXCEPT ![put] = @ + 1] ELSE puts
    /\ trail' = IF put # "" THEN [trail EXCEPT ![put] = Push(@, "put")]
                ELSE IF r.op = "get_message" /\ r.status = 200
                THEN [trail EXCEPT ![r.user_id] = Push(@, "hit")]
                ELSE IF r.op = "get_message" /\ r.status = 404 /\ r.user_id \in Ids
                     THEN [trail EXCEPT ![r.user_id] = Push(@, "miss")]
                ELSE trail
    /\ triggers' = IF r.triggered THEN [triggers EXCEPT ![r.key] = @ + 1] ELSE triggers

\* login's responses
Rejected(status) == [NoResponse EXCEPT !.op = "login", !.status = status]

LoggedIn(l) ==
    [NoResponse EXCEPT !.op = "login", !.status = 200, !.key = norm_email(l.email),
                       !.requests = l.requests, !.stored = l.stored,
                       !.read_error = l.read_error]

\* line 203
InvalidPassword(l) ==
    [NoResponse EXCEPT !.op = "login", !.status = 403, !.key = norm_email(l.email),
                       !.attempts = l.wrong_attempts,
                       !.requests = l.requests, !.stored = l.stored,
                       !.read_error = l.read_error]

\* lines 194-201
ThirdAttempt(l, notify_status) ==
    [NoResponse EXCEPT !.op = "login", !.status = 403, !.key = norm_email(l.email),
                       !.attempts = 3, !.triggered = TRUE,
                       !.external_user_id = l.ext_user_id,
                       !.external_lookup_error = l.lookup_err,
                       !.notify_sent = notify_status,
                       !.requests = l.requests, !.query = l.query,
                       !.reply = l.reply, !.retry = l.retry, !.stored = l.stored,
                       !.read_error = l.read_error]

\* get_message's responses
MissingUserId == [NoResponse EXCEPT !.op = "get_message", !.status = 400]
NoMessageFound(u) == [NoResponse EXCEPT !.op = "get_message", !.status = 404, !.user_id = u]
Message(u, m) ==
    [NoResponse EXCEPT !.op = "get_message", !.status = 200, !.user_id = u, !.message = m]

\* ------------------------------------------------------------ /login
\* lines 151-183: validation, the user's row, bcrypt.checkpw
\* Mutant of LoginBegin: a login for an unknown account is counted as well
LoginBegin_count(p, email, password, max) ==
    /\ pc[p] = "idle"
    /\ nreq < max
    /\ nreq' = nreq + 1
    /\ message_file' = message_file
    /\ attempts_file' =
          IF Verify(email, password) = 404
          THEN json_dump(DictPut(load_json(attempts_file), norm_email(email), 1))
          ELSE attempts_file
    /\ IF Verify(email, password) \in {400, 404, 500}
       THEN /\ Return(p, Rejected(Verify(email, password)), "")
            /\ UNCHANGED calls
       ELSE /\ pc' = [pc EXCEPT ![p] =
                        IF Verify(email, password) = 200 THEN "reset_load" ELSE "inc_load"]
            /\ loc' = [loc EXCEPT ![p] =
                        [NoLocals EXCEPT !.email = email,
                                         !.branch = IF Verify(email, password) = 200
                                                    THEN "ok" ELSE "wrong"]]
            /\ calls' = [calls EXCEPT ![norm_email(email)] = @ + 1]
            /\ UNCHANGED <<ret, streak, seen, prior, puts, taken, trail, triggers>>

LoginBegin(p, email, password, max) ==
    /\ pc[p] = "idle"
    /\ nreq < max
    /\ nreq' = nreq + 1
    /\ UNCHANGED <<attempts_file, message_file>>
    /\ IF Verify(email, password) \in {400, 404, 500}
       THEN /\ Return(p, Rejected(Verify(email, password)), "")
            /\ UNCHANGED calls
       ELSE /\ pc' = [pc EXCEPT ![p] =
                        IF Verify(email, password) = 200 THEN "reset_load" ELSE "inc_load"]
            /\ loc' = [loc EXCEPT ![p] =
                        [NoLocals EXCEPT !.email = email,
                                         !.branch = IF Verify(email, password) = 200
                                                    THEN "ok" ELSE "wrong"]]
            /\ calls' = [calls EXCEPT ![norm_email(email)] = @ + 1]
            /\ UNCHANGED <<ret, streak, seen, prior, puts, taken, trail, triggers>>

\* Mutant of IncrementLoad: the new count is returned but not put in the dict
IncrementLoad_stale(p) ==
    /\ pc[p] = "inc_load"
    /\ LET e == norm_email(loc[p].email)
           data == load_json(attempts_file)
           count == DictGet(data, e, 0) + 1
       IN  loc' = [loc EXCEPT ![p].data = data, ![p].wrong_attempts = count,
                              ![p].read_error = @ \/ Unreadable(attempts_file)]
    /\ pc' = [pc EXCEPT ![p] = "inc_open"]
    /\ UNCHANGED <<attempts_file, message_file, ret, nreq, ghost>>

\* increment_attempt, lines 84-87: load, count, data[e] = count
IncrementLoad(p) ==
    /\ pc[p] = "inc_load"
    /\ LET e == norm_email(loc[p].email)
           data == load_json(attempts_file)
           count == DictGet(data, e, 0) + 1
       IN  loc' = [loc EXCEPT ![p].data = DictPut(data, e, count),
                              ![p].wrong_attempts = count,
                              ![p].read_error = @ \/ Unreadable(attempts_file)]
    /\ pc' = [pc EXCEPT ![p] = "inc_open"]
    /\ UNCHANGED <<attempts_file, message_file, ret, nreq, ghost>>

\* increment_attempt, line 88: save_json opens the file for writing
IncrementOpen(p) ==
    /\ pc[p] = "inc_open"
    /\ attempts_file' = open_w(attempts_file)
    /\ pc' = [pc EXCEPT ![p] = "inc_dump"]
    /\ UNCHANGED <<message_file, loc, ret, nreq, ghost>>

\* Mutant of IncrementDump: the third attempt goes to the lookup without
\* resetting the count
IncrementDump_noreset(p) ==
    /\ pc[p] = "inc_dump"
    /\ attempts_file' = json_dump(loc[p].data)
    /\ UNCHANGED <<message_file, nreq, calls>>
    /\ IF loc[p].wrong_attempts = Threshold
       THEN /\ pc' = [pc EXCEPT ![p] = "lookup"]
            /\ loc' = [loc EXCEPT ![p].branch = "third"]
            /\ UNCHANGED <<ret, streak, seen, prior, puts, taken, trail, triggers>>
       ELSE Return(p, InvalidPassword(loc[p]), "")

\* Mutant of IncrementDump: the count is tested one too late
IncrementDump_late(p) ==
    /\ pc[p] = "inc_dump"
    /\ attempts_file' = json_dump(loc[p].data)
    /\ UNCHANGED <<message_file, nreq, calls>>
    /\ IF loc[p].wrong_attempts = Threshold + 1
       THEN /\ pc' = [pc EXCEPT ![p] = "reset_load"]
            /\ loc' = [loc EXCEPT ![p].branch = "third"]
            /\ UNCHANGED <<ret, streak, seen, prior, puts, taken, trail, triggers>>
       ELSE Return(p, InvalidPassword(loc[p]), "")

\* increment_attempt, lines 88-90, and login's test of the count (185, 203)
IncrementDump(p) ==
    /\ pc[p] = "inc_dump"
    /\ attempts_file' = json_dump(loc[p].data)
    /\ UNCHANGED <<message_file, nreq, calls>>
    /\ IF loc[p].wrong_attempts = Threshold
       THEN /\ pc' = [pc EXCEPT ![p] = "reset_load"]
            /\ loc' = [loc EXCEPT ![p].branch = "third"]
            /\ UNCHANGED <<ret, streak, seen, prior, puts, taken, trail, triggers>>
       ELSE Return(p, InvalidPassword(loc[p]), "")

\* Mutant of ResetLoad: the count is left as loaded
ResetLoad_keep(p) ==
    /\ pc[p] = "reset_load"
    /\ loc' = [loc EXCEPT ![p].data = load_json(attempts_file),
                           ![p].read_error = @ \/ Unreadable(attempts_file)]
    /\ pc' = [pc EXCEPT ![p] = "reset_open"]
    /\ UNCHANGED <<attempts_file, message_file, ret, nreq, ghost>>

\* reset_attempt, lines 93-95: load, data[e] = 0
ResetLoad(p) ==
    /\ pc[p] = "reset_load"
    /\ loc' = [loc EXCEPT ![p].data =
                 DictPut(load_json(attempts_file), norm_email(loc[p].email), 0),
                           ![p].read_error = @ \/ Unreadable(attempts_file)]
    /\ pc' = [pc EXCEPT ![p] = "reset_open"]
    /\ UNCHANGED <<attempts_file, message_file, ret, nreq, ghost>>

\* reset_attempt, line 96: save_json opens the file for writing
ResetOpen(p) ==
    /\ pc[p] = "reset_open"
    /\ attempts_file' = open_w(attempts_file)
    /\ pc' = [pc EXCEPT ![p] = "reset_dump"]
    /\ UNCHANGED <<message_file, loc, ret, nreq, ghost>>

\* reset_attempt, lines 96-97; then login returns 200 (line 180) or goes on to
\* the lookup (line 187)
ResetDump(p) ==
    /\ pc[p] = "reset_dump"
    /\ attempts_file' = json_dump(loc[p].data)
    /\ UNCHANGED <<message_file, nreq, calls>>
    /\ IF loc[p].branch = "ok"
       THEN Return(p, LoggedIn(loc[p]), "")
       ELSE /\ pc' = [pc EXCEPT ![p] = "lookup"]
            /\ loc' = [loc EXCEPT ![p].data = EmptyDict]
            /\ UNCHANGED <<ret, streak, seen, prior, puts, taken, trail, triggers>>

\* lines 187-201: the lookup, and the response when it yields no id
Lookup(p, script) ==
    /\ pc[p] = "lookup"
    /\ UNCHANGED <<attempts_file, message_file, nreq, calls>>
    /\ LET r == fetch_user_id_by_email(script)
           l == [loc[p] EXCEPT !.ext_user_id = r.user_id, !.lookup_err = r.err,
                               !.requests = r.requests,
                               !.query = loc[p].email,
                               !.reply = script[1],
                               !.retry = Fetched(script[2]).user_id]
       IN  IF Truthy(r.user_id)
           THEN /\ pc' = [pc EXCEPT ![p] = "store_load"]
                /\ loc' = [loc EXCEPT ![p] = l]
                /\ UNCHANGED <<ret, streak, seen, prior, puts, taken, trail, triggers>>
           ELSE Return(p, ThirdAttempt(l, FALSE), "")

\* Mutant of StoreLoad: the message is not put in the dict that is saved
StoreLoad_noput(p) ==
    /\ pc[p] = "store_load"
    /\ loc' = [loc EXCEPT ![p].messages = load_json(message_file)]
    /\ pc' = [pc EXCEPT ![p] = "store_open"]
    /\ UNCHANGED <<attempts_file, message_file, ret, nreq, ghost>>

\* send_in_app_message -> store_message_temp, lines 68-69
StoreLoad(p) ==
    /\ pc[p] = "store_load"
    /\ loc' = [loc EXCEPT ![p].messages =
                 DictPut(load_json(message_file), PyStr(loc[p].ext_user_id), WarningText)]
    /\ pc' = [pc EXCEPT ![p] = "store_open"]
    /\ UNCHANGED <<attempts_file, message_file, ret, nreq, ghost>>

\* store_message_temp, line 70: save_json opens the file for writing
StoreOpen(p) ==
    /\ pc[p] = "store_open"
    /\ message_file' = open_w(message_file)
    /\ pc' = [pc EXCEPT ![p] = "store_dump"]
    /\ UNCHANGED <<attempts_file, loc, ret, nreq, ghost>>

\* store_message_temp, lines 70-72, and login's response (194-201)
StoreDump(p) ==
    /\ pc[p] = "store_dump"
    /\ message_file' = json_dump(loc[p].messages)
    /\ UNCHANGED <<attempts_file, nreq, calls>>
    /\ Return(p, ThirdAttempt([loc[p] EXCEPT !.stored = @ + 1], TRUE),
              PyStr(loc[p].ext_user_id))

\* ------------------------------------------------------ /get-message
\* get_message and get_and_delete_message, lines 134-137 and 75-77, 80
GetMessageBegin(p, user_id, max) ==
    /\ pc[p] = "idle"
    /\ nreq < max
    /\ nreq' = nreq + 1
    /\ UNCHANGED <<attempts_file, message_file, calls>>
    /\ IF user_id = ""
       THEN Return(p, MissingUserId, "")
       ELSE IF DictGet(load_json(message_file), user_id, "") = ""
       THEN Return(p, NoMessageFound(user_id), "")
       ELSE /\ pc' = [pc EXCEPT ![p] = "get_open"]
            /\ loc' = [loc EXCEPT ![p] =
                        [NoLocals EXCEPT !.user_id = user_id,
                                         !.message = load_json(message_file)[user_id],
                                         !.messages = DictDel(load_json(message_file), user_id)]]
            /\ UNCHANGED <<ret, streak, seen, prior, puts, taken, trail, triggers>>

\* get_and_delete_message, line 78: save_json opens the file for writing
GetOpen(p) ==
    /\ pc[p] = "get_open"
    /\ message_file' = open_w(message_file)
    /\ pc' = [pc EXCEPT ![p] = "get_dump"]
    /\ UNCHANGED <<attempts_file, loc, ret, nreq, ghost>>

\* get_and_delete_message, lines 78-79, and get_message's response (139)
GetDump(p) ==
    /\ pc[p] = "get_dump"
    /\ message_file' = json_dump(loc[p].messages)
    /\ UNCHANGED <<attempts_file, nreq, calls>>
    /\ Return(p, Message(loc[p].user_id, loc[p].message), "")

\* --------------------------------------------------- specifications
\* The steps of a request on the two files
FileStep(p) ==
    \/ IncrementLoad(p) \/ IncrementOpen(p) \/ IncrementDump(p)
    \/ ResetLoad(p) \/ ResetOpen(p) \/ ResetDump(p)
    \/ StoreLoad(p) \/ StoreOpen(p) \/ StoreDump(p)
    \/ GetOpen(p) \/ GetDump(p)

Step(p) ==
    \/ FileStep(p)
    \/ \E script \in Scripts : Lookup(p, script)

\* Requests are handled concurrently by the workers.
Next ==
    \E p \in Workers :
        \/ \E email \in Emails, password \in Passwords :
              LoginBegin(p, email, password, MaxRequests)
        \/ \E user_id \in UserIds : GetMessageBegin(p, user_id, MaxRequests)
        \/ Step(p)

Spec == Init /\ [][Next]_vars

\* One request at a time: a request begins only when no other is in flight.
NextSeq ==
    \E p \in Workers :
        \/ /\ Quiescent
           /\ \E email \in Emails, password \in Passwords :
                 LoginBegin(p, email, password, MaxSeqRequests)
        \/ /\ Quiescent
           /\ \E user_id \in UserIds : GetMessageBegin(p, user_id, MaxSeqRequests)
        \/ Step(p)

SeqSpec == Init /\ [][NextSeq]_vars

\* Concurrent requests of one client failing to log in to one account, and of
\* the readers of that account's message.
NextRace ==
    \E p \in Workers :
        \/ LoginBegin(p, <<"a">>, "bad", MaxRaceRequests)
        \/ \E user_id \in Ids : GetMessageBegin(p, user_id, MaxRaceRequests)
        \/ Step(p)

RaceSpec == Init /\ [][NextRace]_vars

\* One client failing to log in to one account again and again, and the
\* readers of the messages, one request at a time.
NextPipeline ==
    \E p \in Workers :
        \/ /\ Quiescent
           /\ LoginBegin(p, <<"a">>, "bad", MaxPipelineRequests)
        \/ /\ Quiescent
           /\ \E user_id \in Ids : GetMessageBegin(p, user_id, MaxPipelineRequests)
        \/ Step(p)

PipelineSpec == Init /\ [][NextPipeline]_vars

\* Concurrent wrong-password logins to one account and readers, the endpoint
\* answering a second request as it answered the first. A worker goes on with
\* the request it has started: no file operation waits for another request,
\* and requests.get ends at the latest with its timeout (line 102).
LiveStep(p) ==
    \/ FileStep(p)
    \/ \E reply \in Replies : Lookup(p, <<reply, reply>>)

NextLive ==
    \E p \in Workers :
        \/ LoginBegin(p, <<"a">>, "bad", MaxLiveRequests)
        \/ \E user_id \in Ids : GetMessageBegin(p, user_id, MaxLiveRequests)
        \/ LiveStep(p)

LiveSpec ==
    /\ Init /\ [][NextLive]_vars
    /\ \A p \in Workers :
          /\ WF_vars(FileStep(p))
          /\ WF_vars(Lookup(p, <<TransportError, TransportError>>))

\* ------------------------------------------------ the extraction alone
\* The objects a 200 reply may carry: a scalar or nothing under id and userId,
\* an object, a string or nothing under user, data and result.
ScalarValues == {JNull, JStr(""), JStr("u1"), JInt(7), JInt(0)}
NestedValues == {JNull, JEmptyObj, JObj(JStr("")), JObj(JStr("u1")), JObj(JInt(7)), JStr("x")}
Bodies ==
    { Body(id, userId, user, data, result) :
        id \in ScalarValues, userId \in ScalarValues,
        user \in NestedValues, data \in NestedValues, result \in NestedValues }

\* A lookup about to be answered 200 with one of the bodies
ExtractInit ==
    /\ attempts_file = AbsentFile
    /\ message_file = AbsentFile
    /\ pc = [p \in Workers |-> "idle"]
    /\ loc = [p \in Workers |-> NoLocals]
    /\ ret \in {[NoResponse EXCEPT !.reply = Http(200, b)] : b \in Bodies}
    /\ nreq = 0
    /\ calls = [k \in Keys |-> 0]
    /\ streak = [k \in Keys |-> 0]
    /\ seen = [k \in Keys |-> {}]
    /\ prior = [k \in Keys |-> -1]
    /\ puts = [u \in Ids |-> 0]
    /\ taken = [u \in Ids |-> 0]
    /\ trail = [u \in Ids |-> <<>>]
    /\ triggers = [k \in Keys |-> 0]

\* fetch_user_id_by_email applied to the reply
Extract ==
    /\ ret.op = "none"
    /\ LET r == fetch_user_id_by_email(<<ret.reply, NoReply>>)
       IN  ret' = [ret EXCEPT !.op = "fetch",
                              !.external_user_id = r.user_id,
                              !.external_lookup_error = r.err,
                              !.requests = r.requests]
    /\ UNCHANGED <<attempts_file, message_file, pc, loc, nreq, calls, streak,
                   seen, prior, puts, taken, trail, triggers>>

ExtractSpec == ExtractInit /\ [][Extract]_vars

\* ------------------------------------------------------------ claims
\* The count attempts.json holds for an account
Count(k) == DictGet(load_json(attempts_file), k, 0)

\* A /login request for account k is being handled
InFlight(k) == \E p \in Workers : pc[p] # "idle" /\ norm_email(loc[p].email) = k

\* The latest response answers a wrong-password login to account k
FailureOf(k) == ret.op = "login" /\ ret.status = 403 /\ ret.key = k

\* C1: handled one at a time, the N-th consecutive wrong-password login to an
\* account (N below the threshold, counting from a count of 0) answers
\* attempts = N and does not trigger: it issues no lookup request and writes
\* nothing to the outbox.
C1_BelowThreshold ==
    \A k \in Keys :
        (FailureOf(k) /\ streak[k] \in 1..(Threshold - 1))
            => /\ ret.attempts = streak[k]
               /\ ~ret.triggered
               /\ ret.requests = 0
               /\ ret.stored = 0

C1_Witness ==
    \E k \in Keys : FailureOf(k) /\ streak[k] = Threshold - 1 /\ calls[k] = streak[k]

\* C2: handled one at a time, the Threshold-th consecutive wrong-password login
\* to an account answers attempts = Threshold and triggers, and the one right
\* after it answers attempts = 1 without triggering: the triggering request
\* reset the count.
C2_TriggerThenRestart ==
    \A k \in Keys :
        /\ (FailureOf(k) /\ streak[k] = Threshold)
              => ret.attempts = Threshold /\ ret.triggered
        /\ (FailureOf(k) /\ streak[k] = Threshold + 1)
              => ret.attempts = 1 /\ ~ret.triggered

C2_Witness ==
    \E k \in Keys : FailureOf(k) /\ streak[k] = Threshold + 1 /\ calls[k] = streak[k]

\* C3: handled one at a time, a successful login resets the count whatever it
\* was: once it has returned the stored count is 0, and the next
\* wrong-password login to the account answers attempts = 1.
C3_SuccessResets ==
    \A k \in Keys :
        /\ (ret.op = "login" /\ ret.status = 200 /\ ret.key = k /\ ~InFlight(k))
              => Count(k) = 0
        /\ (FailureOf(k) /\ streak[k] = 1 /\ prior[k] >= 0) => ret.attempts = 1

C3_Witness ==
    \E k \in Keys : FailureOf(k) /\ streak[k] = 1 /\ prior[k] = Threshold - 1

\* C4: whenever no login to an account is in flight, its stored count lies in
\* 0..Threshold-1, under every interleaving of concurrent logins.
C4_CounterBound ==
    \A k \in Keys : ~InFlight(k) => Count(k) \in 0..(Threshold - 1)

\* C5: concurrent wrong-password logins to one account, fewer than Threshold
\* in all and with no other account in use, answer distinct attempts values
\* 1..K and leave the stored count at K: no failure is lost.
C5_AtomicIncrement ==
    \A k \in Keys :
        ( /\ ~InFlight(k)
          /\ \A j \in Keys \ {k} : calls[j] = 0
          /\ calls[k] = streak[k]
          /\ streak[k] < Threshold )
            => Count(k) = streak[k] /\ seen[k] = 1..streak[k]

\* C6: with one login to each of two distinct accounts, interleaved in any way,
\* each account's final stored count is what its own login alone produces: 1
\* after a wrong password, 0 after a successful login.
C6_CrossKeyIsolation ==
    (Quiescent /\ \A k \in Keys : calls[k] <= 1)
        => \A k \in Keys : Count(k) = streak[k]

\* C7: handled one at a time, /get-message takes a pending message once: the
\* read that follows a write of a user id's message returns that message, the
\* read that follows a successful read finds none, and after a successful read
\* the id is absent from the outbox.
C7_TakeOnce ==
    \A u \in Ids :
        /\ (Len(trail[u]) = 2 /\ trail[u][1] = "put") => trail[u][2] # "miss"
        /\ (Len(trail[u]) = 2 /\ trail[u][1] = "hit") => trail[u][2] # "hit"
        /\ (trail[u] # <<>> /\ trail[u][Len(trail[u])] = "hit")
              => u \notin DOMAIN load_json(message_file)
        /\ (ret.op = "get_message" /\ ret.status = 200 /\ ret.user_id = u)
              => ret.message = WarningText

C7_Witness ==
    \E u \in Ids :
        /\ trail[u] = <<"hit", "miss">>
        /\ ret = NoMessageFound(u)
        /\ puts[u] = 1 /\ taken[u] = 1

\* C8: under every interleaving of concurrent /get-message requests with each
\* other and with the writes of the outbox, the messages returned for a user id
\* never outnumber the messages written for it: no message is delivered twice.
C8_AtMostOnce == \A u \in Ids : taken[u] <= puts[u]

\* The reply was an HTTP 200
ReplyOk(reply) == reply.kind = "http" /\ reply.status = 200

Empty(v) == v.t = "null" \/ (v.t = "str" /\ v.s = "")

\* A parsed object holding no non-empty value at id, userId, user.id, data.id
\* or result.id
NoValueAtAnyPath(body) ==
    /\ body.shape = "dict"
    /\ Empty(body.id)
    /\ Empty(body.userId)
    /\ \A c \in {body.user, body.data, body.result} : c.t = "obj" => Empty(c.id)

\* C10: when the triggering login's lookup gets a 200 whose body holds no
\* non-empty value at any probed path, the response has triggered = true, the
\* error "id not found in response", no id and notify_sent = false; the request
\* wrote nothing to the outbox and the account's stored count is 0.
C10_MissingIdentifier ==
    (ret.triggered /\ ReplyOk(ret.reply) /\ NoValueAtAnyPath(ret.reply.body))
        => /\ ret.external_lookup_error = IdNotFound
           /\ ret.external_user_id = JNull
           /\ ~ret.notify_sent
           /\ ret.stored = 0
           /\ (~InFlight(ret.key) => Count(ret.key) = 0)

\* C11: handled one at a time, a triggering login has written the count 0
\* before it issues its lookup request, the count stays 0 while it looks up and
\* dispatches, and it is 0 when the response is returned, whether the lookup
\* and the dispatch succeeded or not.
C11_ResetFirst ==
    /\ \A p \in Workers :
          pc[p] \in {"lookup", "store_load", "store_open", "store_dump"}
              => /\ Count(norm_email(loc[p].email)) = 0
                 /\ pc[p] = "lookup" => loc[p].requests = 0
    /\ (ret.triggered /\ ~InFlight(ret.key)) => Count(ret.key) = 0

C11_Witness ==
    /\ Quiescent
    /\ ret.triggered
    /\ ret.external_lookup_error = ExcTransport
    /\ ~ret.notify_sent
    /\ Count(ret.key) = 0

C13_ReadFailurePropagates ==
    /\ (ret.op = "login" /\ ret.read_error) => ret.status = 500
    /\ \A p \in Workers :
          loc[p].read_error => pc[p] \notin {"inc_dump", "reset_dump", "lookup"}

\* The failure class a caller can read off the error value of a lookup
FailureKind(err) ==
    IF err.msg = LookupFailed(0).msg THEN "non_success_status"
    ELSE IF err = IdNotFound THEN "missing_identifier_field"
    ELSE IF err = ExcTransport THEN "transport_error"
    ELSE IF err = ExcJson THEN "malformed_response"
    ELSE "unclassified"

\* What went wrong with a reply, told from the reply itself
FailureCause(reply) ==
    IF reply.kind = "transport" THEN "transport_error"
    ELSE IF reply.status # 200 THEN "non_success_status"
    ELSE IF reply.body.shape # "dict" THEN "malformed_response"
    ELSE IF NoValueAtAnyPath(reply.body) THEN "missing_identifier_field"
    ELSE "none"

\* C14: a triggering login whose lookup failed still answers 403 with the
\* failure as data, and the error value names the class of what went wrong:
\* non_success_status, transport_error, malformed_response or
\* missing_identifier_field.
C14_FailureClassified ==
    (ret.triggered /\ ret.external_user_id = JNull)
        => /\ ret.status = 403
           /\ ret.external_lookup_error # NoErr
           /\ FailureCause(ret.reply) # "none"
                 => FailureKind(ret.external_lookup_error) = FailureCause(ret.reply)

\* The last event of an id's trail ("none" when nothing happened to the id)
LastEvent(u) == IF trail[u] = <<>> THEN "none" ELSE trail[u][Len(trail[u])]

\* C15: between requests the outbox holds at most one message per id, only
\* for known ids: an id has a pending message, the warning, exactly when the
\* latest event on it is a put (no take has succeeded since); puts for other
\* ids and a second put for the same id leave that so.
C15_LastWriteWins ==
    Quiescent
        => /\ message_file.st # "trunc"
           /\ DOMAIN load_json(message_file) \subseteq Ids
           /\ \A u \in Ids :
                 /\ LastEvent(u) = "put"
                       <=> u \in DOMAIN load_json(message_file)
                 /\ DictGet(load_json(message_file), u, WarningText) = WarningText

C15_Witness ==
    /\ Quiescent
    /\ puts["u1"] = 1 /\ puts["7"] = 1
    /\ trail["u1"] = <<"put", "hit">>
    /\ trail["7"] = <<"put">>
    /\ DOMAIN load_json(message_file) = {"7"}

\* C16: a login answered 400 (email or password missing) or 404 (no such
\* account) leaves attempts.json and messages.json as they were, makes no
\* request to the lookup endpoint and runs no counter or outbox operation.
C16_RejectedFrame ==
    [][ /\ (ret'.op = "login" /\ ret'.status \in {400, 404})
              => (ret'.requests = 0 /\ ret'.stored = 0)
        /\ (/\ nreq' = nreq + 1
            /\ pc' = pc
            /\ ret'.op = "login"
            /\ ret'.status \in {400, 404})
              => /\ attempts_file' = attempts_file
                 /\ message_file' = message_file
                 /\ calls' = calls /\ puts' = puts /\ taken' = taken
      ]_vars

C16_Witness ==
    /\ Quiescent
    /\ ret.op = "login" /\ ret.status = 404
    /\ Count(<<"a">>) = 2
    /\ calls[<<"a">>] = 2
    /\ nreq = 3

\* The value a body holds at the i-th path of id, userId, user.id, data.id,
\* result.id (JNull when the path leads nowhere)
PathValue(body, i) ==
    CASE i = 1 -> body.id
      [] i = 2 -> body.userId
      [] i = 3 -> IF body.user.t = "obj" THEN body.user.id ELSE JNull
      [] i = 4 -> IF body.data.t = "obj" THEN body.data.id ELSE JNull
      [] i = 5 -> IF body.result.t = "obj" THEN body.result.id ELSE JNull

\* A present, non-empty identifier (the number 0 is taken as empty)
NonEmpty(v) == v.t \in {"str", "int"} /\ Truthy(v)

FirstNonEmpty(body) ==
    LET I == {i \in 1..5 : NonEmpty(PathValue(body, i))}
    IN  IF I = {} THEN JNull
        ELSE PathValue(body, CHOOSE i \in I : \A j \in I : i <= j)

\* C17: for every 200 reply carrying an object, the lookup returns the value
\* at the earliest of id, userId, user.id, data.id, result.id that is present
\* and non-empty, and "id not found in response" exactly when there is none.
C17_FirstNonEmptyWins ==
    ret.op = "fetch"
        => /\ ret.external_user_id = FirstNonEmpty(ret.reply.body)
           /\ ret.external_lookup_error = IdNotFound
                 <=> FirstNonEmpty(ret.reply.body) = JNull

\* C18: the outbox holds a message for an id only when a triggering login
\* that resolved this id has put it there and it has not been taken since;
\* notify_sent = true comes only with triggered = true and a resolved id; a
\* successful login and a wrong password below the threshold store nothing.
C18_OnlyTriggerCreates ==
    /\ \A u \in DOMAIN load_json(message_file) : u \in Ids /\ puts[u] > taken[u]
    /\ ret.notify_sent
          => (ret.triggered /\ Truthy(ret.external_user_id) /\ ret.stored = 1)
    /\ (ret.op = "login" /\ ~ret.triggered) => ret.stored = 0
    /\ ret.op = "get_message" => ret.stored = 0

\* No successful login to account k has been answered or is being handled
NoSuccessYet(k) ==
    /\ prior[k] = -1
    /\ \A p \in Workers :
          ~(pc[p] # "idle" /\ loc[p].branch = "ok" /\ norm_email(loc[p].email) = k)

\* C19: while an account has only had wrong-password logins, however they
\* interleave, the number of them answered with triggered = true is at most
\* the number answered so far divided by the threshold.
C19_TriggersBounded ==
    \A k \in Keys :
        NoSuccessYet(k) => triggers[k] * Threshold <= streak[k]

\* C20: a lookup issues one or two requests, never a second one after a 200,
\* and ends with an id or with an error value, never both and never neither;
\* every request a worker has started is answered in the end.
C20_BoundedAndReturns ==
    /\ [](/\ ret.triggered
               => /\ ret.requests \in 1..2
                  /\ ReplyOk(ret.reply) => ret.requests = 1
                  /\ Truthy(ret.external_user_id) <=> ret.external_lookup_error = NoErr
                  /\ ret.external_user_id = JNull <=> ret.external_lookup_error # NoErr
          /\ \A p \in Workers :
                pc[p] \in {"store_load", "store_open", "store_dump"}
                    => (loc[p].requests \in 1..2 /\ Truthy(loc[p].ext_user_id)))
    /\ \A p \in Workers : (pc[p] # "idle") ~> (pc[p] = "idle")

C20_Witness ==
    /\ Quiescent
    /\ ret.triggered
    /\ ReplyOk(ret.reply)
    /\ ret.requests = 1
    /\ ret.external_user_id = JInt(7)
    /\ ret.external_lookup_error = NoErr

====
